---- MODULE Spec2Model ----
(***************************************************************************)
(* A model of clive's caching file system zx/zxc (zxc.go): the directory   *)
(* part of Fs.get, the walk-and-fetch engine with its per-node locks, and  *)
(* the operations built on it (stat, wstat, get, put, remove, move, link). *)
(*                                                                         *)
(* The cache (fsCache, fsFile), the zx helpers and the remote file server  *)
(* are not part of zxc.go; they are modelled from their contracts.         *)
(***************************************************************************)
EXTENDS Integers, Sequences, FiniteSets, TLC

VARIABLES
    get,    \* the locals of Fs.get while it lists a directory
    attrs,  \* the uid and wuid cached for every file, and who put to it last
    sy,     \* the syncer task: its locals, its two channels, and what it owes
    fd,     \* the Find that is under way: the calls of findr, its stream, its consumer
    rfs,    \* the remote tree: the type of every path ("none" when absent)
    rup,    \* the remote answers (FALSE: every request ends in an I/O error)
    node,   \* the cache: one node per path
    lock,   \* the mutex of every node: its holder, or Free
    cl,     \* the clients: the operation each one runs and where it stands
    cfg,    \* the flags of the Fs (writesync, redialok, perms) and what the remote supports
    env,    \* how often the remote failed and the cache was invalidated by hand
    hist    \* what has happened so far (history, read by the claims only)

coreVars == <<rfs, rup, node, lock, cl, cfg, env, hist>>

vars == <<get, attrs, sy, fd, rfs, rup, node, lock, cl, cfg, env, hist>>

(***************************************************************************)
(* Bounds of the model                                                     *)
(***************************************************************************)
MaxLen == 3
MaxOff == 3
MaxCount == 3
MaxOps == 2
FsMaxOps == 1
MaxFail == 1
MaxInval == 1

(***************************************************************************)
(* Fs.get, directory case (zxc.go 573-620)                                 *)
(***************************************************************************)
\* zx.All, the count that means "no limit" (fs.rfs.Get(f.path(), 0, -1))
All == -1

\* ctldir["name"]
Ctl == "Ctl"

\* names a directory listing returned by f.getDir() may hold
DirNames == {"a", "b", ".zx", ".#zx"}

\* a check of the name that forgets .#zx, the old AttrFile
IsHiddenNew(name) == name = ".zx"

\* d["name"] == ".zx" || d["name"] == ".#zx"
IsHidden(name) == name = ".zx" \/ name = ".#zx"

\* copy(ds[i:], ds[i+1:]); ds = ds[:len(ds)-1]   (i counts from 0)
DelAt(ds, i) == SubSeq(ds, 1, i) \o SubSeq(ds, i + 2, Len(ds))

\* switch count { case zx.All: ; case 0: break Dloop; default: count-- }
DecCount(count) == IF count = All THEN All ELSE count - 1

SeqsUpTo(S, n) == UNION {[1..k -> S] : k \in 0..n}

GetIdle == [pc |-> "idle", root |-> FALSE, ds0 |-> <<>>, off0 |-> 0, count0 |-> 0,
            ds |-> <<>>, i |-> 0, off |-> 0, count |-> 0, ctlsent |-> FALSE,
            out |-> <<>>]

InLoop == get.pc = "loop" /\ get.i < Len(get.ds)

\* if off > 0 { off--; if !ctlsent && p == "/" { ctlsent = true } else { i++ }; continue }
GetOff ==
    /\ InLoop
    /\ get.off > 0
    /\ get' = IF ~get.ctlsent /\ get.root
              THEN [get EXCEPT !.off = @ - 1, !.ctlsent = TRUE]
              ELSE [get EXCEPT !.off = @ - 1, !.i = @ + 1]
    /\ UNCHANGED <<attrs, sy, fd, coreVars>>

\* case 0: break Dloop
GetCountZero ==
    /\ InLoop
    /\ get.off = 0
    /\ get.count = 0
    /\ get' = [get EXCEPT !.pc = "done"]
    /\ UNCHANGED <<attrs, sy, fd, coreVars>>

\* if !ctlsent && p == "/" { ctlsent = true; c <- ctldir.Bytes(); continue }
GetCtl ==
    /\ InLoop
    /\ get.off = 0
    /\ get.count # 0
    /\ ~get.ctlsent /\ get.root
    /\ get' = [get EXCEPT !.count = DecCount(@), !.ctlsent = TRUE,
                          !.out = Append(@, Ctl)]
    /\ UNCHANGED <<attrs, sy, fd, coreVars>>

\* if d["name"] == ".zx" || ... { if i == len(ds)-1 { break }; copy...; continue }
GetHidden ==
    /\ InLoop
    /\ get.off = 0
    /\ get.count # 0
    /\ ~(~get.ctlsent /\ get.root)
    /\ IsHidden(get.ds[get.i + 1])
    /\ get' = IF get.i = Len(get.ds) - 1
              THEN [get EXCEPT !.count = DecCount(@), !.pc = "done"]
              ELSE [get EXCEPT !.count = DecCount(@), !.ds = DelAt(@, get.i)]
    /\ UNCHANGED <<attrs, sy, fd, coreVars>>

\* c <- d.Bytes(); i++
GetEmit ==
    /\ InLoop
    /\ get.off = 0
    /\ get.count # 0
    /\ ~(~get.ctlsent /\ get.root)
    /\ ~IsHidden(get.ds[get.i + 1])
    /\ get' = [get EXCEPT !.count = DecCount(@), !.i = @ + 1,
                          !.out = Append(@, get.ds[get.i + 1])]
    /\ UNCHANGED <<attrs, sy, fd, coreVars>>

\* the loop condition i < len(ds) fails: return nil
GetEnd ==
    /\ get.pc = "loop"
    /\ get.i >= Len(get.ds)
    /\ get' = [get EXCEPT !.pc = "done"]
    /\ UNCHANGED <<attrs, sy, fd, coreVars>>

(***************************************************************************)
(* Paths.  A path is the sequence of its elements (zx.Elems): "/" is <<>>, *)
(* "/d/f" is <<"d", "f">>.                                                 *)
(***************************************************************************)
Root == <<>>
D == <<"d">>
E == <<"e">>
DF == <<"d", "f">>
DG == <<"d", "g">>
CtlPath == <<"Ctl">>
CtlSub == <<"Ctl", "d">>

\* the paths that may hold a file in this model: /, /d, /e, /d/f, /d/g
Paths == {Root, D, E, DF, DG}

\* fpath.Dir(p)
Parent(p) == SubSeq(p, 1, Len(p) - 1)

\* fpath.Base(p)
Base(p) == p[Len(p)]

\* zx.HasPrefix(p, pre): pre is p or an ancestor of p
HasPrefix(p, pre) == Len(pre) <= Len(p) /\ SubSeq(p, 1, Len(pre)) = pre

\* the order of the bytes that start the names used here: C < d < e < f < g
NameRank(n) ==
    CASE n = "Ctl" -> 0 [] n = "d" -> 1 [] n = "e" -> 2 [] n = "f" -> 3 [] n = "g" -> 4

\* a < b for the path strings a and b, as Go compares strings (pfrom < pto);
\* every name is one byte long and "/" sorts before all of them
StrLess(a, b) ==
    \E k \in 1..Len(b) :
        /\ \A j \in 1..(k - 1) : j <= Len(a) /\ a[j] = b[j]
        /\ (k > Len(a) \/ NameRank(a[k]) < NameRank(b[k]))

Children(p) == {q \in Paths : Len(q) = Len(p) + 1 /\ Parent(q) = p}

(***************************************************************************)
(* The remote file server (zx.Getter and the optional interfaces).  Its    *)
(* answers to zx.Stat, zx.GetDir, Get, Move and Link.                      *)
(***************************************************************************)
Types == {"d", "-"}

\* the names zx.GetDir(rfs, f) lists when the remote tree is rf
Listing(rf, f) == {Base(q) : q \in {c \in Children(f) : rf[c] # "none"}}

\* <-rfs.Move(from, to): the error, and the tree afterwards
RemoteMove(from, to) ==
    IF ~rup THEN [err |-> "io", rfs |-> rfs]
    ELSE IF rfs[from] = "none" \/ rfs[Parent(to)] # "d"
         THEN [err |-> "notexist", rfs |-> rfs]
         ELSE [err |-> "nil",
               rfs |-> [rfs EXCEPT ![to] = rfs[from], ![from] = "none"]]

\* <-rfs.Link(to, from): from becomes another name of to
RemoteLink(to, from) ==
    IF ~rup THEN [err |-> "io", rfs |-> rfs]
    ELSE IF rfs[to] = "none" \/ rfs[Parent(from)] # "d"
         THEN [err |-> "notexist", rfs |-> rfs]
         ELSE IF rfs[from] # "none"
              THEN [err |-> "exists", rfs |-> rfs]
              ELSE [err |-> "nil", rfs |-> [rfs EXCEPT ![from] = rfs[to]]]

(***************************************************************************)
(* The cache: fsFile nodes (metadata, validity flags, children).           *)
(***************************************************************************)
\* a node made from an entry of its parent's listing
FreshNode(typ) ==
    [metaOk |-> TRUE, dataOk |-> FALSE, gone |-> FALSE, dirty |-> FALSE,
     oldData |-> FALSE, typ |-> typ, kids |-> {}]

\* a path the cache has no node for
NoNode ==
    [metaOk |-> FALSE, dataOk |-> FALSE, gone |-> FALSE, dirty |-> FALSE,
     oldData |-> FALSE, typ |-> "none", kids |-> {}]

\* f.gotMeta(d): data is dropped when the type changed
GotMeta(nd, f, typ) ==
    [nd EXCEPT ![f] = [nd[f] EXCEPT !.metaOk = TRUE, !.typ = typ,
                                    !.dataOk = nd[f].dataOk /\ nd[f].typ = typ]]

\* f.gotDir(ds): children in the listing stay or are added with the listing's
\* metadata, children missing from it are tombstoned and dropped
GotDir(nd, rf, f) ==
    [q \in Paths |->
        IF q = f
        THEN [nd[f] EXCEPT !.dataOk = TRUE, !.oldData = TRUE, !.kids = Listing(rf, f)]
        ELSE IF q \in Children(f)
             THEN IF rf[q] # "none"
                  THEN IF Base(q) \in nd[f].kids THEN nd[q] ELSE FreshNode(rf[q])
                  ELSE IF Base(q) \in nd[f].kids
                       THEN [nd[q] EXCEPT !.gone = TRUE]
                       ELSE nd[q]
             ELSE nd[q]]

\* f.gotData(c) that reached EOF
GotData(nd, f) == [nd EXCEPT ![f].dataOk = TRUE, ![f].oldData = TRUE]

\* f.gone()
Gone(nd, f) == [nd EXCEPT ![f].gone = TRUE]

\* f.inval()
Inval(nd, f) == [nd EXCEPT ![f].metaOk = FALSE, ![f].dataOk = FALSE]

\* fs.c.inval()
CacheInval(nd) == [q \in Paths |-> [nd[q] EXCEPT !.metaOk = FALSE, !.dataOk = FALSE]]

\* f.wstat(nd)
NodeWstat(nd, f) == [nd EXCEPT ![f].dirty = TRUE]

\* f.remove(all): a directory with children is removed only when all is set
RemoveErr(nd, f, all) ==
    IF nd[f].typ = "d" /\ ~all /\ nd[f].kids # {} THEN "notempty" ELSE "nil"

NodeRemove(nd, f, all) ==
    IF RemoveErr(nd, f, all) # "nil" THEN nd
    ELSE [q \in Paths |->
            IF q = f THEN [nd[q] EXCEPT !.gone = TRUE, !.dirty = TRUE]
            ELSE IF HasPrefix(q, f) /\ Base(q) \in nd[Parent(q)].kids
                 THEN [nd[q] EXCEPT !.gone = TRUE]
                 ELSE nd[q]]

\* f.newFile(d, rfs): a new child of f, dirty
NewFile(nd, f, q, typ) ==
    [nd EXCEPT ![q] = [metaOk |-> TRUE, dataOk |-> TRUE, gone |-> FALSE,
                       dirty |-> TRUE, oldData |-> FALSE, typ |-> typ, kids |-> {}],
               ![f].kids = @ \cup {Base(q)}]

\* what pushing the dirty node f does to the remote tree
Push(rf, nd, f) ==
    IF nd[f].gone
    THEN [q \in Paths |-> IF HasPrefix(q, f) THEN "none" ELSE rf[q]]
    ELSE [rf EXCEPT ![f] = nd[f].typ]

\* f.sync(rfs): the error, the cache and the remote tree afterwards
NodeSync(nd, f) ==
    IF ~nd[f].dirty THEN [err |-> "nil", node |-> nd, rfs |-> rfs]
    ELSE IF ~rup THEN [err |-> "io", node |-> nd, rfs |-> rfs]
         ELSE [err |-> "nil", node |-> [nd EXCEPT ![f].dirty = FALSE],
               rfs |-> Push(rfs, nd, f)]

PathOrder == <<Root, D, DF, DG, E>>

RECURSIVE SyncFrom(_, _, _)
SyncFrom(nd, rf, k) ==
    IF k > Len(PathOrder) THEN [node |-> nd, rfs |-> rf]
    ELSE LET f == PathOrder[k] IN
         IF nd[f].dirty
         THEN SyncFrom([nd EXCEPT ![f].dirty = FALSE], Push(rf, nd, f), k + 1)
         ELSE SyncFrom(nd, rf, k + 1)

\* fs.c.sync(rfs): depth first, every dirty node
CacheSync(nd) ==
    IF ~rup THEN [node |-> nd, rfs |-> rfs] ELSE SyncFrom(nd, rfs, 1)

(***************************************************************************)
(* Fs.getMeta, Fs.getDirData, Fs.getData (zxc.go 256-303).  Each yields    *)
(* the error returned, the cache afterwards and whether an I/O error was   *)
(* bridged (needRedial called, nil returned).                              *)
(***************************************************************************)
Fetched(err, nd, bridged) == [err |-> err, node |-> nd, bridged |-> bridged]

GetMeta(nd, f) ==
    IF ~rup
    THEN IF cfg.redialok
         THEN Fetched("nil", nd, TRUE)      \* have old meta; use that
         ELSE Fetched("io", nd, FALSE)
    ELSE IF rfs[f] = "none"
         THEN Fetched("notexist", Gone(nd, f), FALSE)
         ELSE Fetched("nil", GotMeta(nd, f, rfs[f]), FALSE)

GetDirData(nd, rf, f) ==
    IF ~rup
    THEN IF cfg.redialok /\ nd[f].oldData
         THEN Fetched("nil", nd, TRUE)      \* use the old data
         ELSE Fetched("io", nd, FALSE)
    ELSE IF rf[f] = "none"
         THEN Fetched("notexist", Gone(nd, f), FALSE)
         ELSE IF rf[f] # "d"
              THEN Fetched("notdir", nd, FALSE)
              ELSE Fetched("nil", GotDir(nd, rf, f), FALSE)

GetData(nd, f) ==
    IF ~rup
    THEN IF cfg.redialok /\ nd[f].oldData
         THEN Fetched("nil", nd, TRUE)
         ELSE Fetched("io", nd, FALSE)
    ELSE IF rfs[f] = "none"
         THEN Fetched("notexist", nd, FALSE)
         ELSE Fetched("nil", GotData(nd, f), FALSE)

NoFetch(nd) == Fetched("nil", nd, FALSE)

(***************************************************************************)
(* Clients.  Each runs one operation of the Fs at a time.                  *)
(***************************************************************************)
Clients == {"c1", "c2"}

Free == "free"

\* bridge: whether this walk went on after a fetch that failed ("old": the node had
\* old data, "noold": f.oldDataOk() was false)
NoWalk ==
    [st |-> "none", why |-> "forStat", f |-> Root, els |-> <<>>, err |-> "nil",
     bridge |-> "none"]

\* what an operation returned: the kind of its result, what became of its request to
\* the remote ("none": no request was made), and the type of the entry returned
NoRes == [kind |-> "none", push |-> "none", typ |-> "none"]

IdleClient ==
    [pc |-> "idle", op |-> "none", p |-> Root, q |-> Root, typ |-> "", opt |-> FALSE,
     w |-> NoWalk, ffrom |-> Root, fto |-> Root, held |-> {}, ret |-> "nil",
     res |-> NoRes, n |-> 0, after |-> FALSE, pre |-> FALSE]

\* the operation op(p, q, typ, opt) is called
Called(r, op, p, q, typ, opt) ==
    [r EXCEPT !.op = op, !.p = p, !.q = q, !.typ = typ, !.opt = opt,
              !.res = NoRes, !.after = hist.moved, !.pre = FALSE]

\* fs.walk(why, nd, els...) is entered: f = fs.c.root()
StartWalk(r, pc, why, els) ==
    [r EXCEPT !.pc = pc,
              !.w = [st |-> "lock", why |-> why, f |-> Root, els |-> els, err |-> "nil",
                     bridge |-> "none"]]

\* the operation returns kind (its locals are dropped)
Finish(r, kind, push, typ) ==
    [r EXCEPT !.pc = "idle", !.w = NoWalk, !.ffrom = Root, !.fto = Root,
              !.held = {}, !.ret = "nil", !.n = @ + 1,
              !.res = [kind |-> kind, push |-> push, typ |-> typ]]

\* f.Unlock() by c for every f in S
Unlock(lk, c, S) == [q \in Paths |-> IF q \in S /\ lk[q] = c THEN Free ELSE lk[q]]

\* d.CanWalk(ai), d.CanGet(ai), d.CanPut(ai), d.CanWstat(ai, nd): every answer
\* is possible when permissions are checked, and all is allowed otherwise
Allowed == IF cfg.perms THEN BOOLEAN ELSE {TRUE}

(***************************************************************************)
(* The uid and wuid Fs.put leaves on a file (zxc.go 933-999)               *)
(***************************************************************************)
Users == {"nemo", "elf"}
NoAi == "nil"          \* fs.ai of a view that was not authenticated
ProcUid == "sys"       \* u.Uid, the user that runs the process
Files == {DF, DG}

AttrsIdle == [uid  |-> [p \in Files |-> ""],
              wuid |-> [p \in Files |-> ""],
              last |-> [p \in Files |-> NoAi]]

\* uid := wd["uid"]; if uid == "" { uid = u.Uid; if fs.ai != nil && fs.ai.Uid != "" { uid = fs.ai.Uid } }
PutUid(wduid, ai) ==
    IF wduid # "" THEN wduid
    ELSE IF ai # NoAi /\ ai # "" THEN ai
    ELSE ProcUid

\* the attributes of p after f.wstat(d): those d carries replace the old ones
FileWstat(a, p, duid, dwuid) ==
    [a EXCEPT !.uid[p] = IF duid # "" THEN duid ELSE @,
              !.wuid[p] = IF dwuid # "" THEN dwuid ELSE @]

\* Fs.put(p, d) by the view authenticated as ai, on a regular file p that is in the
\* cache: typ is d["type"] and duid is d["uid"].  The walk found p, so wd is p's
\* entry; with perms set the walk's CanPut and wd.CanWstat may refuse.
PutAttrs(ai, p, typ, duid) ==
    /\ get.pc = "idle"
    /\ \E may \in Allowed :
        LET wd  == [uid |-> attrs.uid[p], type |-> "-"]
            uid == PutUid(wd.uid, ai)
        IN  IF (typ # "" /\ wd.type # typ) \/ ~may
            THEN UNCHANGED attrs
            ELSE attrs' = [FileWstat(attrs, p, duid, uid) EXCEPT !.last[p] = ai]
    /\ UNCHANGED <<get, sy, fd, coreVars>>

(***************************************************************************)
(* Fs.walk (zxc.go 306-437), one step per lock acquisition and per fetch   *)
(***************************************************************************)
\* a walk that goes on without taking the lock of f
WalkNoLock(c) ==
    /\ cl[c].w.st = "lock"
    /\ cl' = [cl EXCEPT ![c].w.st = "meta"]
    /\ UNCHANGED <<get, attrs, sy, fd, rfs, rup, node, lock, cfg, env, hist>>

\* f.Lock()
WalkLock(c) ==
    /\ cl[c].w.st = "lock"
    /\ lock[cl[c].w.f] = Free
    /\ lock' = [lock EXCEPT ![cl[c].w.f] = c]
    /\ cl' = [cl EXCEPT ![c].w.st = "meta"]
    /\ UNCHANGED <<get, attrs, sy, fd, rfs, rup, node, cfg, env, hist>>

\* what the walk w has bridged once the fetch m of node n is done
Bridged(w, m, n) ==
    IF ~m.bridged \/ w.bridge = "noold" THEN w.bridge
    ELSE IF n.oldData THEN "old" ELSE "noold"

\* the error of the checks made on the metadata d of f, before any data is fetched
MetaErr(why, term, n, may) ==
    IF n.gone THEN "notexist"
    ELSE IF term
         THEN IF why = "forGet" /\ ~may THEN "perm"
              ELSE IF why = "forPut" /\ n.typ = "d" THEN "isdir"
              ELSE IF why = "forLink" THEN "exists"
              ELSE "nil"
         ELSE IF n.typ # "d" THEN "notdir"
              ELSE IF ~may THEN "perm"
              ELSE "nil"

\* if !f.metaOk() { getMeta }; if f.isDel() ...; the checks on d = f.dir()
WalkMeta(c) ==
    /\ cl[c].w.st = "meta"
    /\ \E may \in Allowed :
        LET w == cl[c].w
            f == w.f
            term == w.els = <<>>
            m == IF node[f].metaOk THEN NoFetch(node) ELSE GetMeta(node, f)
            err == IF m.err # "nil" THEN m.err
                   ELSE MetaErr(w.why, term, m.node[f], may)
        IN  /\ node' = m.node
            /\ hist' = [hist EXCEPT !.bridged = @ \/ m.bridged]
            /\ IF err # "nil"
               THEN /\ lock' = Unlock(lock, c, {f})
                    /\ cl' = [cl EXCEPT ![c].w.st = "err", ![c].w.err = err]
               ELSE /\ lock' = lock
                    /\ cl' = [cl EXCEPT ![c].w.st =
                                IF term /\ w.why \in {"forStat", "forCreat", "forCreatAll"}
                                THEN "ok" ELSE "data",
                                        ![c].w.bridge = Bridged(w, m, node[f])]
    /\ UNCHANGED <<get, attrs, sy, fd, rfs, rup, cfg, env>>

\* the fetch of data the walk makes at f
WalkFetch(nd, w) ==
    LET f == w.f
        n == nd[f]
    IN  IF n.dataOk THEN NoFetch(nd)
        ELSE IF w.els # <<>> THEN GetDirData(nd, rfs, f)
        ELSE IF w.why = "forGet"
             THEN IF n.typ = "d" THEN GetDirData(nd, rfs, f) ELSE GetData(nd, f)
        ELSE IF w.why = "forPut" THEN GetData(nd, f)
        ELSE IF w.why = "forDel" /\ n.typ = "d" THEN GetDirData(nd, rfs, f)
        ELSE NoFetch(nd)

\* the permission asked of the parent of the last element
NeedsPerm(w) ==
    /\ Len(w.els) = 1
    /\ w.why \in {"forStat", "forDel", "forCreat", "forCreatAll", "forLink"}

\* the data fetch, then at a directory on the way: walk1 and the move to the child
WalkData(c) ==
    /\ cl[c].w.st = "data"
    /\ \E may \in Allowed :
        LET w == cl[c].w
            f == w.f
            m == WalkFetch(node, w)
            found == w.els[1] \in m.node[f].kids
            cf == Append(f, w.els[1])
        IN  /\ hist' = [hist EXCEPT !.bridged = @ \/ m.bridged]
            /\ IF m.err # "nil"
               THEN /\ node' = m.node
                    /\ lock' = Unlock(lock, c, {f})
                    /\ cl' = [cl EXCEPT ![c].w.st = "err", ![c].w.err = m.err]
               ELSE IF w.els = <<>>
               THEN /\ node' = m.node
                    /\ lock' = lock
                    /\ cl' = [cl EXCEPT ![c].w.st = "ok",
                                        ![c].w.bridge = Bridged(w, m, node[f])]
               ELSE IF NeedsPerm(w) /\ ~may
               THEN /\ node' = m.node
                    /\ lock' = Unlock(lock, c, {f})
                    /\ cl' = [cl EXCEPT ![c].w.st = "err", ![c].w.err = "perm"]
               ELSE IF found
               THEN \* f.Unlock(); f = cf; els = els[1:]
                    /\ node' = m.node
                    /\ lock' = Unlock(lock, c, {f})
                    /\ cl' = [cl EXCEPT ![c].w.st = "lock", ![c].w.f = cf,
                                        ![c].w.els = Tail(w.els),
                                        ![c].w.bridge = Bridged(w, m, node[f])]
               ELSE IF w.why = "forCreatAll" /\ Len(w.els) > 1
               THEN \* nf := f.newFile(dd, fs.rfs), which comes locked; f.Unlock(); f = nf
                    /\ lock[cf] = Free
                    /\ node' = NewFile(m.node, f, cf, "d")
                    /\ lock' = [Unlock(lock, c, {f}) EXCEPT ![cf] = c]
                    /\ cl' = [cl EXCEPT ![c].w.st = "lock", ![c].w.f = cf,
                                        ![c].w.els = Tail(w.els),
                                        ![c].w.bridge = Bridged(w, m, node[f])]
               ELSE IF w.why \in {"forCreat", "forCreatAll", "forLink"} /\ Len(w.els) = 1
               THEN \* return f, nil: the parent, locked
                    /\ node' = m.node
                    /\ lock' = lock
                    /\ cl' = [cl EXCEPT ![c].w.st = "ok",
                                        ![c].w.bridge = Bridged(w, m, node[f])]
               ELSE /\ node' = m.node
                    /\ lock' = Unlock(lock, c, {f})
                    /\ cl' = [cl EXCEPT ![c].w.st = "err", ![c].w.err = "notexist"]
    /\ UNCHANGED <<get, attrs, sy, fd, rfs, rup, cfg, env>>

\* the walk failed: the operation returns its error, after its deferred unlocks
WalkFailed(c) ==
    /\ cl[c].w.st = "err"
    /\ lock' = Unlock(lock, c, cl[c].held)
    /\ cl' = [cl EXCEPT ![c] = Finish(@, cl[c].w.err, "none", "none")]
    /\ UNCHANGED <<get, attrs, sy, fd, rfs, rup, node, cfg, env, hist>>

(***************************************************************************)
(* Stat and Get (zxc.go 439-467, 556-635)                                  *)
(***************************************************************************)
CanCall(c) == cl[c].pc = "idle" /\ cl[c].n < env.maxops

\* f, err := fs.walk(forStat, nil, zx.Elems(p)...)
StatCall(c, p) ==
    /\ CanCall(c)
    /\ cl' = [cl EXCEPT ![c] =
                StartWalk(Called(@, "stat", p, p, "", FALSE), "stat", "forStat", p)]
    /\ UNCHANGED <<get, attrs, sy, fd, rfs, rup, node, lock, cfg, env, hist>>

\* defer f.Unlock(); return f.dir().Dup(), nil
StatReturn(c) ==
    /\ cl[c].pc = "stat"
    /\ cl[c].w.st = "ok"
    /\ lock' = Unlock(lock, c, {cl[c].w.f})
    /\ cl' = [cl EXCEPT ![c] = Finish(@, "ok", "none", node[cl[c].w.f].typ)]
    /\ UNCHANGED <<get, attrs, sy, fd, rfs, rup, node, cfg, env, hist>>

\* f, err := fs.walk(forGet, nil, zx.Elems(p)...)
GetCall(c, p) ==
    /\ CanCall(c)
    /\ cl' = [cl EXCEPT ![c] =
                StartWalk(Called(@, "get", p, p, "", FALSE), "get", "forGet", p)]
    /\ UNCHANGED <<get, attrs, sy, fd, rfs, rup, node, lock, cfg, env, hist>>

\* f.getData(off, count, c) unlocks f before it sends; ds, err := f.getDir(); f.Unlock()
GetReturn(c) ==
    /\ cl[c].pc = "get"
    /\ cl[c].w.st = "ok"
    /\ lock' = Unlock(lock, c, {cl[c].w.f})
    /\ cl' = [cl EXCEPT ![c] = Finish(@, "ok", "none", node[cl[c].w.f].typ)]
    /\ UNCHANGED <<get, attrs, sy, fd, rfs, rup, node, cfg, env, hist>>

(***************************************************************************)
(* The end of a mutating operation: if fs.sync { f.sync(fs.rfs) } else     *)
(* { fs.needSync() }, then the return (zxc.go 507-512, 653-659, 1018-1026) *)
(***************************************************************************)
\* what the operation returns once f.sync(fs.rfs) ended with syncerr
AfterSync(ret, syncerr) == ret

\* the record of a client that has changed f, unlocked it and would return ret
Changed(r, f, ret) ==
    IF cfg.writesync
    THEN [r EXCEPT !.pc = "wsync", !.w = NoWalk, !.ffrom = f, !.ret = ret]
    ELSE Finish(r, ret, "none", "none")

\* f.sync(fs.rfs), whose error is dropped
SyncReturn(c) ==
    /\ cl[c].pc = "wsync"
    /\ LET s == NodeSync(node, cl[c].ffrom)
       IN  /\ node' = s.node
           /\ rfs' = s.rfs
           /\ cl' = [cl EXCEPT ![c] =
                       Finish(@, AfterSync(cl[c].ret, s.err),
                              IF s.err = "nil" THEN "ok" ELSE "failed", "none")]
    /\ UNCHANGED <<get, attrs, sy, fd, rup, lock, cfg, env, hist>>

(***************************************************************************)
(* Wstat (zxc.go 469-528)                                                  *)
(***************************************************************************)
\* why := forStat; if nd["size"] != "" { why = forPut }
WstatCall(c, p, size) ==
    /\ CanCall(c)
    /\ cl' = [cl EXCEPT ![c] =
                StartWalk(Called(@, "wstat", p, p, "", size), "wstat",
                          IF size THEN "forPut" ELSE "forStat", p)]
    /\ UNCHANGED <<get, attrs, sy, fd, rfs, rup, node, lock, cfg, env, hist>>

\* d.CanWstat(ai, nd); f.wstat(nd); f.Unlock()
WstatApply(c) ==
    /\ cl[c].pc = "wstat"
    /\ cl[c].w.st = "ok"
    /\ \E may \in Allowed :
        LET f == cl[c].w.f
        IN  /\ lock' = Unlock(lock, c, {f})
            /\ IF ~may
               THEN /\ node' = node
                    /\ cl' = [cl EXCEPT ![c] = Finish(@, "perm", "none", "none")]
               ELSE /\ node' = NodeWstat(node, f)
                    /\ cl' = [cl EXCEPT ![c] = Changed(@, f, "ok")]
    /\ UNCHANGED <<get, attrs, sy, fd, rfs, rup, cfg, env, hist>>

(***************************************************************************)
(* Remove and RemoveAll (zxc.go 637-684)                                   *)
(***************************************************************************)
RemoveCall(c, p, all) ==
    /\ CanCall(c)
    /\ cl' = [cl EXCEPT ![c] =
                IF p = CtlPath \/ p = Root
                THEN Finish(Called(@, "remove", p, p, "", all), "perm", "none", "none")
                ELSE StartWalk(Called(@, "remove", p, p, "", all), "remove", "forDel", p)]
    /\ UNCHANGED <<get, attrs, sy, fd, rfs, rup, node, lock, cfg, env, hist>>

\* err = f.remove(all); f.Unlock()
RemoveApply(c) ==
    /\ cl[c].pc = "remove"
    /\ cl[c].w.st = "ok"
    /\ LET f == cl[c].w.f
           err == RemoveErr(node, f, cl[c].opt)
       IN  /\ node' = NodeRemove(node, f, cl[c].opt)
           /\ lock' = Unlock(lock, c, {f})
           /\ cl' = [cl EXCEPT ![c] = Changed(@, f, IF err = "nil" THEN "ok" ELSE err)]
    /\ UNCHANGED <<get, attrs, sy, fd, rfs, rup, cfg, env, hist>>

(***************************************************************************)
(* Put (zxc.go 888-1045)                                                   *)
(***************************************************************************)
\* the walk made for d["type"]
PutWhy(typ) ==
    IF typ = "" THEN "forPut"
    ELSE IF typ \in {"d", "-"} THEN "forCreat" ELSE "forCreatAll"

\* d["type"] after case "D" and case "F"
PutTyp(typ) == IF typ = "D" THEN "d" ELSE IF typ = "F" THEN "-" ELSE typ

PutCall(c, p, typ) ==
    /\ CanCall(c)
    /\ cl' = [cl EXCEPT ![c] =
                IF p = Root
                THEN Finish(Called(@, "put", p, p, typ, FALSE), "isdir", "none", "none")
                ELSE StartWalk(Called(@, "put", p, p, PutTyp(typ), FALSE), "put",
                               PutWhy(typ), p)]
    /\ UNCHANGED <<get, attrs, sy, fd, rfs, rup, node, lock, cfg, env, hist>>

\* from wd := f.dir() to the unlock of the walked node (zxc.go 933-1014)
PutApply(c) ==
    /\ cl[c].pc = "put"
    /\ cl[c].w.st = "ok"
    /\ \E may \in Allowed :
        LET f == cl[c].w.f
            p == cl[c].p
            typ == cl[c].typ
        IN  IF f = p /\ typ # "" /\ node[f].typ # typ
            THEN /\ node' = node
                 /\ lock' = Unlock(lock, c, {f})
                 /\ cl' = [cl EXCEPT ![c] = Finish(@, "exists", "none", "none")]
            ELSE IF ~may
            THEN /\ node' = node
                 /\ lock' = Unlock(lock, c, {f})
                 /\ cl' = [cl EXCEPT ![c] = Finish(@, "perm", "none", "none")]
            ELSE IF f # p
            THEN \* nf, err := f.newFile(d, fs.rfs), which comes locked; f.Unlock()
                 /\ lock[p] = Free
                 /\ node' = NewFile(node, f, p, typ)
                 /\ lock' = [Unlock(lock, c, {f}) EXCEPT ![p] = c]
                 /\ cl' = [cl EXCEPT ![c] =
                             IF typ = "d" THEN Finish(@, "ok", "none", "d")
                             ELSE [@ EXCEPT !.pc = "put_lock", !.w = NoWalk]]
            ELSE \* f.wstat(d); a directory is unlocked here, a file by putData
                 /\ node' = NodeWstat(node, f)
                 /\ lock' = Unlock(lock, c, {f})
                 /\ cl' = [cl EXCEPT ![c] =
                             IF typ = "d" THEN Changed(@, f, "ok")
                             ELSE [@ EXCEPT !.pc = "put_relock", !.w = NoWalk]]
    /\ UNCHANGED <<get, attrs, sy, fd, rfs, rup, cfg, env, hist>>

\* f = nf; f.Lock(); f.wstat(d); f.putData(off, c, umtime)   (zxc.go 990-1014)
\* f.Lock(); d = f.dir().Dup(); f.Unlock()                   (zxc.go 1015-1017)
PutLock(c) ==
    /\ cl[c].pc \in {"put_lock", "put_relock"}
    /\ lock[cl[c].p] = Free
    /\ IF cl[c].pc = "put_lock"
       THEN /\ node' = NodeWstat(node, cl[c].p)
            /\ cl' = [cl EXCEPT ![c].pc = "put_relock"]
       ELSE /\ node' = node
            /\ cl' = [cl EXCEPT ![c] = Changed(@, cl[c].p, "ok")]
    /\ UNCHANGED <<get, attrs, sy, fd, rfs, rup, lock, cfg, env, hist>>

(***************************************************************************)
(* Move (zxc.go 686-795)                                                   *)
(***************************************************************************)
\* the check with its arguments taken the other way round
inconsistentMoveRev(from, to) == IF from = to THEN FALSE ELSE HasPrefix(from, to)

\* inconsistentMove(from, to)
inconsistentMove(from, to) == IF from = to THEN FALSE ELSE HasPrefix(to, from)

\* the error of the checks Fs.move makes before it touches the cache
\* ("go": none of them fails)
MoveCheck(from, to) ==
    IF ~cfg.mover THEN "unsupported"
    ELSE IF from = to THEN "ok"
    ELSE IF from = CtlPath \/ from = Root THEN "perm"
    ELSE IF to = CtlPath \/ to = Root THEN "perm"
    ELSE IF inconsistentMove(from, to) THEN "badpath"
    ELSE "go"

MoveCall(c, from, to) ==
    /\ CanCall(c)
    /\ cl' = [cl EXCEPT ![c] =
                IF MoveCheck(from, to) # "go"
                THEN Finish(Called(@, "move", from, to, "", FALSE),
                            MoveCheck(from, to), "none", "none")
                ELSE [Called(@, "move", from, to, "", FALSE) EXCEPT !.pc = "mv_sync"]]
    /\ UNCHANGED <<get, attrs, sy, fd, rfs, rup, node, lock, cfg, env, hist>>

\* fs.c.sync(fs.rfs); ffrom, err := fs.walk(forDel, nil, fromels...)
MoveSync(c) ==
    /\ cl[c].pc = "mv_sync"
    /\ LET s == CacheSync(node)
       IN  /\ node' = s.node
           /\ rfs' = s.rfs
    /\ cl' = [cl EXCEPT ![c] = StartWalk(@, "mv_from", "forDel", cl[c].p)]
    /\ UNCHANGED <<get, attrs, sy, fd, rup, lock, cfg, env, hist>>

\* ffrom.inval(); ffrom.Unlock(); fto, err := fs.walk(forCreat, nil, toels...)
MoveFrom(c) ==
    /\ cl[c].pc = "mv_from"
    /\ cl[c].w.st = "ok"
    /\ node' = Inval(node, cl[c].w.f)
    /\ lock' = Unlock(lock, c, {cl[c].w.f})
    /\ cl' = [cl EXCEPT ![c] =
                StartWalk([@ EXCEPT !.ffrom = cl[c].w.f], "mv_to", "forCreat", cl[c].q)]
    /\ UNCHANGED <<get, attrs, sy, fd, rfs, rup, cfg, env, hist>>

\* the other order: of from when pfrom < pto
FirstParentRev(from, to) ==
    IF StrLess(Parent(from), Parent(to)) THEN Parent(from) ELSE Parent(to)

\* the parent walked first: of from when pfrom >= pto, of to when pfrom < pto
FirstParent(from, to) ==
    IF StrLess(Parent(from), Parent(to)) THEN Parent(to) ELSE Parent(from)

\* the parent walked second, while the first is held
SecondParent(from, to) ==
    IF StrLess(Parent(from), Parent(to)) THEN Parent(from) ELSE Parent(to)

\* fto.inval(); fto.Unlock(); then the first walk of the switch on pfrom and pto
MoveTo(c) ==
    /\ cl[c].pc = "mv_to"
    /\ cl[c].w.st = "ok"
    /\ node' = Inval(node, cl[c].w.f)
    /\ lock' = Unlock(lock, c, {cl[c].w.f})
    /\ cl' = [cl EXCEPT ![c] =
                StartWalk([@ EXCEPT !.fto = cl[c].w.f], "mv_p1", "forStat",
                          FirstParent(cl[c].p, cl[c].q))]
    /\ UNCHANGED <<get, attrs, sy, fd, rfs, rup, cfg, env, hist>>

\* the first parent is locked (defer Unlock); unless pfrom == pto, walk to the second
MoveParent1(c) ==
    /\ cl[c].pc = "mv_p1"
    /\ cl[c].w.st = "ok"
    /\ LET from == cl[c].p
           to == cl[c].q
           f == cl[c].w.f
           r == IF StrLess(Parent(from), Parent(to))
                THEN [cl[c] EXCEPT !.fto = f, !.held = @ \cup {f}]
                ELSE [cl[c] EXCEPT !.ffrom = f, !.held = @ \cup {f}]
       IN  cl' = [cl EXCEPT ![c] =
                    IF Parent(from) = Parent(to)
                    THEN [r EXCEPT !.pc = "mv_do", !.w = NoWalk]
                    ELSE StartWalk(r, "mv_p2", "forStat", SecondParent(from, to))]
    /\ UNCHANGED <<get, attrs, sy, fd, rfs, rup, node, lock, cfg, env, hist>>

\* the second parent is locked (defer Unlock)
MoveParent2(c) ==
    /\ cl[c].pc = "mv_p2"
    /\ cl[c].w.st = "ok"
    /\ LET f == cl[c].w.f
       IN  cl' = [cl EXCEPT ![c] =
                    IF StrLess(Parent(cl[c].p), Parent(cl[c].q))
                    THEN [@ EXCEPT !.ffrom = f, !.held = @ \cup {f}, !.pc = "mv_do",
                                   !.w = NoWalk]
                    ELSE [@ EXCEPT !.fto = f, !.held = @ \cup {f}, !.pc = "mv_do",
                                   !.w = NoWalk]]
    /\ UNCHANGED <<get, attrs, sy, fd, rfs, rup, node, lock, cfg, env, hist>>

\* a move that leaves the cached nodes as they are
MoveInvalNone(nd, ffrom, fto) == nd

\* ffrom.inval(); fto.inval()
MoveInval(nd, ffrom, fto) == Inval(Inval(nd, ffrom), fto)

\* ffrom.inval(); fto.inval(); err := <-rfs.Move(from, to); the deferred unlocks
MoveDo(c) ==
    /\ cl[c].pc = "mv_do"
    /\ LET m == RemoteMove(cl[c].p, cl[c].q)
       IN  /\ node' = MoveInval(node, cl[c].ffrom, cl[c].fto)
           /\ rfs' = m.rfs
           /\ lock' = Unlock(lock, c, cl[c].held)
           /\ hist' = [hist EXCEPT !.moved = @ \/ m.err = "nil"]
           /\ cl' = [cl EXCEPT ![c] =
                       Finish(@, IF m.err = "nil" THEN "ok" ELSE m.err,
                              IF m.err = "nil" THEN "ok" ELSE "failed", "none")]
    /\ UNCHANGED <<get, attrs, sy, fd, rup, cfg, env>>

(***************************************************************************)
(* Link (zxc.go 797-861)                                                   *)
(***************************************************************************)
\* inconsistentLink(oldp, newp)
inconsistentLink(oldp, newp) == HasPrefix(newp, oldp)

\* the error of the checks Fs.link(to, from) makes before it touches the cache
LinkCheck(to, from) ==
    IF ~cfg.linker THEN "unsupported"
    ELSE IF from = to THEN "ok"
    ELSE IF from = CtlPath \/ from = Root THEN "perm"
    ELSE IF to = CtlPath \/ to = Root THEN "perm"
    ELSE IF inconsistentLink(from, to) THEN "badpath"
    ELSE "go"

\* toels := zx.Elems(from): the path walked forStat before the walk forLink
LinkStatPath(to, from) == from

\* the remote has to, has no from and has the directory that would hold from
Linkable(to, from) ==
    /\ to \in Paths /\ from \in Paths
    /\ rfs[to] # "none" /\ rfs[from] = "none" /\ rfs[Parent(from)] = "d"

LinkCall(c, to, from) ==
    /\ CanCall(c)
    /\ cl' = [cl EXCEPT ![c] =
                LET r == [Called(@, "link", to, from, "", FALSE)
                            EXCEPT !.pre = Linkable(to, from)]
                IN  IF LinkCheck(to, from) # "go"
                    THEN Finish(r, LinkCheck(to, from), "none", "none")
                    ELSE [r EXCEPT !.pc = "ln_sync"]]
    /\ UNCHANGED <<get, attrs, sy, fd, rfs, rup, node, lock, cfg, env, hist>>

\* fs.c.sync(fs.rfs); fto, err := fs.walk(forStat, nil, toels...)
LinkSync(c) ==
    /\ cl[c].pc = "ln_sync"
    /\ LET s == CacheSync(node)
       IN  /\ node' = s.node
           /\ rfs' = s.rfs
    /\ cl' = [cl EXCEPT ![c] =
                StartWalk(@, "ln_stat", "forStat", LinkStatPath(cl[c].p, cl[c].q))]
    /\ UNCHANGED <<get, attrs, sy, fd, rup, lock, cfg, env, hist>>

\* fto.Unlock(); ffrom, err := fs.walk(forLink, nil, fromels...)
LinkStat(c) ==
    /\ cl[c].pc = "ln_stat"
    /\ cl[c].w.st = "ok"
    /\ lock' = Unlock(lock, c, {cl[c].w.f})
    /\ cl' = [cl EXCEPT ![c] = StartWalk(@, "ln_walk", "forLink", cl[c].q)]
    /\ UNCHANGED <<get, attrs, sy, fd, rfs, rup, node, cfg, env, hist>>

\* defer ffrom.Unlock(); ffrom.inval(); err = <-rfs.Link(to, from);
\* fs.getDirData(ffrom); return err
LinkDo(c) ==
    /\ cl[c].pc = "ln_walk"
    /\ cl[c].w.st = "ok"
    /\ LET ffrom == cl[c].w.f
           m == RemoteLink(cl[c].p, cl[c].q)
       IN  /\ rfs' = m.rfs
           /\ node' = GetDirData(Inval(node, ffrom), m.rfs, ffrom).node
           /\ lock' = Unlock(lock, c, {ffrom})
           /\ hist' = [hist EXCEPT !.linked = TRUE]
           /\ cl' = [cl EXCEPT ![c] =
                       Finish(@, IF m.err = "nil" THEN "ok" ELSE m.err,
                              IF m.err = "nil" THEN "ok" ELSE "failed", "none")]
    /\ UNCHANGED <<get, attrs, sy, fd, rup, cfg, env>>

(***************************************************************************)
(* Find (zxc.go 1047-1186).  One Find is followed at a time: fd holds the  *)
(* calls of findr that are under way, innermost last, the entries its       *)
(* consumer has received, and whether the consumer has closed the stream.   *)
(* A send on the stream waits for the consumer; on a closed stream it       *)
(* fails at once.  /Ctl is no node of the cache: fd.ctl is the lock of      *)
(* ctlfile.                                                                 *)
(***************************************************************************)
\* c := make(chan zx.Dir), before any call of findr
\* failed: a send on the stream has failed since the consumer closed it
FdIdle ==
    [who |-> "none", stack |-> <<>>, out |-> <<>>, closed |-> FALSE, failed |-> FALSE,
     ctl |-> Free]

\* findr(f, d, ...) is entered, f locked: ds its listing, i the child the loop is at
Frame(f) == [f |-> f, ds |-> <<>>, i |-> 1, st |-> "eval"]

\* the call of findr that runs
Top == fd.stack[Len(fd.stack)]

\* the calls of findr with the one that runs replaced by fr
SetTop(fr) == [fd.stack EXCEPT ![Len(fd.stack)] = fr]

\* match, pruned, err := fp.EvalAt(d, lvl) says pruned, without a match; the predicates
\* used here are "all", which matches every entry, "prune", which matches every entry
\* but /d, where it prunes, and "bad", which pred.New refuses
Pruned(k, f) == k = "prune" /\ f = D

\* ds, err = f.getDir(), with the entry of /Ctl put first at the root
Listed(f) ==
    LET ds == SelectSeq(PathOrder,
                        LAMBDA q : q \in Children(f) /\ Base(q) \in node[f].kids)
    IN  IF f = Root THEN <<CtlPath>> \o ds ELSE ds

\* the calls left when the innermost has returned nil: the loop of
\* its caller goes on with the next child
PopTo(st) ==
    LET n == Len(st) - 1
    IN  [SubSeq(st, 1, n) EXCEPT ![n] = [@ EXCEPT !.i = @ + 1, !.st = "loop"]]

\* the call of findr that runs returns err, g being the Find as that call leaves it:
\* an error goes up through every caller (zxc.go 1120-1122) and through find to
\* Find, which closes the stream with it; nil goes to the loop of the caller
FindrReturn(c, err, g) ==
    IF err # "nil" \/ Len(g.stack) = 1
    THEN /\ fd' = FdIdle
         /\ cl' = [cl EXCEPT ![c] =
                     Finish(@, IF err = "nil" THEN "ok" ELSE err, "none", "none")]
    ELSE /\ fd' = [g EXCEPT !.stack = PopTo(g.stack)]
         /\ cl' = cl

\* Find(path, fpred, "", "", 0): f, err = fs.walk(forGet, nil, zx.Elems(p)...)
FindCall(c, p, k) ==
    /\ CanCall(c)
    /\ fd.who = "none"
    /\ \A o \in Clients : cl[o].pc \notin {"find", "findr"}
    /\ cl' = [cl EXCEPT ![c] =
                StartWalk(Called(@, "find", p, p, k, FALSE), "find", "forGet", p)]
    /\ UNCHANGED <<get, attrs, sy, fd, rfs, rup, node, lock, cfg, env, hist>>

\* d = f.dir().Dup(); fp, err := pred.New(fpred); if err != nil { f.Unlock(); return err };
\* return fs.findr(f, d, fp, p, spref, dpref, depth, c)
FindStart(c) ==
    /\ cl[c].pc = "find"
    /\ cl[c].w.st = "ok"
    /\ IF cl[c].typ = "bad"
       THEN /\ lock' = Unlock(lock, c, {cl[c].w.f})
            /\ cl' = [cl EXCEPT ![c] = Finish(@, "badpred", "none", "none")]
            /\ fd' = fd
       ELSE /\ lock' = lock
            /\ cl' = [cl EXCEPT ![c].pc = "findr", ![c].w = NoWalk]
            /\ fd' = [FdIdle EXCEPT !.who = c, !.stack = <<Frame(cl[c].w.f)>>]
    /\ UNCHANGED <<get, attrs, sy, rfs, rup, node, cfg, env, hist>>

\* from fp.EvalAt(d, lvl) to the f.Unlock() that comes before the send of d
FindrEval(c) ==
    /\ fd.who = c
    /\ Top.st = "eval"
    /\ LET f == Top.f
       IN  IF f = CtlPath
           THEN /\ fd' = [fd EXCEPT !.ctl = Free,
                                    !.stack = SetTop([Top EXCEPT !.st = "send_m"])]
                /\ UNCHANGED <<lock, cl>>
           ELSE IF Pruned(cl[c].typ, f)
           THEN \* f.Unlock(); d["err"] = "pruned"
                /\ lock' = Unlock(lock, c, {f})
                /\ fd' = [fd EXCEPT !.stack = SetTop([Top EXCEPT !.st = "send_p"])]
                /\ cl' = cl
           ELSE IF node[f].gone
           THEN \* if d["rm"] != "" { f.Unlock(); return nil }
                /\ lock' = Unlock(lock, c, {f})
                /\ FindrReturn(c, "nil", fd)
           ELSE /\ lock' = Unlock(lock, c, {f})
                /\ fd' = [fd EXCEPT !.stack =
                            SetTop([Top EXCEPT !.st = "send_m",
                                               !.ds = IF node[f].typ = "d"
                                                      THEN Listed(f) ELSE <<>>])]
                /\ cl' = cl
    /\ UNCHANGED <<get, attrs, sy, rfs, rup, node, cfg, env, hist>>

\* the send of d.  Of a pruned entry: c <- d; return nil.  Of an entry that matches:
\* if ok := c <- d; !ok { return cerror(c) }, the consumer having closed the stream
\* with an error
FindrSend(c) ==
    /\ fd.who = c
    /\ Top.st \in {"send_p", "send_m"}
    /\ IF fd.closed
       THEN FindrReturn(c, IF Top.st = "send_p" THEN "nil" ELSE "closed",
                        [fd EXCEPT !.failed = TRUE])
       ELSE IF Top.st = "send_p"
       THEN FindrReturn(c, "nil", [fd EXCEPT !.out = Append(@, Top.f)])
       ELSE /\ fd' = [fd EXCEPT !.out = Append(@, Top.f),
                                !.stack = SetTop([Top EXCEPT !.st = "loop"])]
            /\ cl' = cl
    /\ UNCHANGED <<get, attrs, sy, rfs, rup, node, lock, cfg, env, hist>>

\* for i := 0; i < len(ds); i++ { cd := ds[i]; f.Lock() ..., and return nil after
\* the last child
FindrLoop(c) ==
    /\ fd.who = c
    /\ Top.st = "loop"
    /\ IF Top.i > Len(Top.ds)
       THEN /\ FindrReturn(c, "nil", fd)
            /\ lock' = lock
       ELSE /\ lock[Top.f] = Free
            /\ lock' = [lock EXCEPT ![Top.f] = c]
            /\ fd' = [fd EXCEPT !.stack = SetTop([Top EXCEPT !.st = "walk1"])]
            /\ cl' = cl
    /\ UNCHANGED <<get, attrs, sy, rfs, rup, node, cfg, env, hist>>

\* cf = ctlfile, or cf, err = f.walk1(cd["name"]); f.Unlock(); if err != nil { continue }
FindrWalk1(c) ==
    /\ fd.who = c
    /\ Top.st = "walk1"
    /\ LET cd == Top.ds[Top.i]
           found == cd = CtlPath \/ Base(cd) \in node[Top.f].kids
       IN  fd' = [fd EXCEPT !.stack =
                    SetTop(IF found THEN [Top EXCEPT !.st = "lockchild"]
                           ELSE [Top EXCEPT !.st = "loop", !.i = @ + 1])]
    /\ lock' = Unlock(lock, c, {Top.f})
    /\ UNCHANGED <<get, attrs, sy, rfs, rup, node, cl, cfg, env, hist>>

\* cf.Lock(); if cd["type"] == "d" && !cf.dataOk() { if err := fs.getDirData(cf);
\* err != nil { defer cf.Unlock(); return ... } }; fs.findr(cf, cd, ...) is entered
FindrChild(c) ==
    /\ fd.who = c
    /\ Top.st = "lockchild"
    /\ LET cd == Top.ds[Top.i]
           down == Append(SetTop([Top EXCEPT !.st = "child"]), Frame(cd))
       IN  IF cd = CtlPath
           THEN /\ fd.ctl = Free
                /\ fd' = [fd EXCEPT !.ctl = c, !.stack = down]
                /\ UNCHANGED <<node, lock, cl, hist>>
           ELSE LET m == IF node[cd].typ = "d" /\ ~node[cd].dataOk
                         THEN GetDirData(node, rfs, cd) ELSE NoFetch(node)
                IN  /\ lock[cd] = Free
                    /\ node' = m.node
                    /\ hist' = [hist EXCEPT !.bridged = @ \/ m.bridged]
                    /\ IF m.err # "nil"
                       THEN /\ lock' = lock
                            /\ FindrReturn(c, m.err, fd)
                       ELSE /\ lock' = [lock EXCEPT ![cd] = c]
                            /\ fd' = [fd EXCEPT !.stack = down]
                            /\ cl' = cl
    /\ UNCHANGED <<get, attrs, sy, rfs, rup, cfg, env>>

\* the consumer of the stream closes it with an error, as FindGet does:
\* close(dc, cerror(c))
ConsumerClose ==
    /\ fd.who # "none"
    /\ ~fd.closed
    /\ fd' = [fd EXCEPT !.closed = TRUE]
    /\ UNCHANGED <<get, attrs, sy, coreVars>>

(***************************************************************************)
(* Fs.syncer, Fs.needSync, Fs.needRedial, Fs.redial, Fs.Close              *)
(* (zxc.go 143-253).  syncc and redialc are unbuffered: a non-blocking     *)
(* send is received only when the syncer waits in its doselect.  A receive *)
(* from a closed channel yields the zero value at once.                    *)
(***************************************************************************)
\* the syncer at its doselect, before any signal: ival := syncIval; redialing := false
\* owed:  a redial signal was sent and no Redial was attempted since
\* fresh: no Redial failed and no Sync ended in a bridged I/O error since the last
\*        Redial that succeeded
\* pend:  one change of the cache is followed at a time.  "yes": the operation that
\*        made it has called needSync and no fs.Sync() was called since; "late": it did
\*        so while a call of fs.Sync() was under way, which may have missed the change;
\*        "no": no change is followed
SyIdle ==
    [pc |-> "select", redialing |-> FALSE, ival |-> "syncIval",
     sclosed |-> FALSE, rclosed |-> FALSE, owed |-> FALSE, fresh |-> TRUE,
     pend |-> "no"]

\* a body that goes to the Sync without looking at redialing
SyncAlways(y) == [y EXCEPT !.pc = "sync"]

\* the body of case x := <-fs.syncc with x true, and of case <-time.After(ival), up to
\* the first call that blocks: a Redial when redialing, else the Sync
SyncOrRedial(y) == IF y.redialing THEN [y EXCEPT !.pc = "redial_s"] ELSE [y EXCEPT !.pc = "sync"]

\* fs.needSync() by an operation that has changed the cache in write-back mode:
\* select { case fs.syncc <- true: default: }, and the syncer's case x := <-fs.syncc
\* up to the first blocking call; the signal is dropped when the syncer is not at its
\* doselect.  follow: this change is the one followed from now on
NeedSync ==
    /\ ~sy.sclosed
    /\ \E follow \in BOOLEAN :
        LET y == IF follow /\ sy.pend = "no"
                 THEN [sy EXCEPT !.pend = IF sy.pc = "sync" THEN "late" ELSE "yes"]
                 ELSE sy
        IN  \/ /\ sy.pc = "select"
               /\ \E recent \in BOOLEAN :   \* time.Since(last) < syncIval
                     sy' = IF recent THEN [y EXCEPT !.ival = "1s"] ELSE SyncOrRedial(y)
            \/ /\ sy.pc # "select"
               /\ sy' = y
    /\ UNCHANGED <<get, attrs, fd, coreVars>>

\* fs.needRedial() by an operation that bridged an I/O error, and the syncer's
\* case <-fs.redialc: redialing = true; fs.redial() is called
NeedRedial ==
    /\ cfg.redialok
    /\ ~rup
    /\ ~sy.rclosed
    /\ sy' = IF sy.pc = "select"
             THEN [sy EXCEPT !.pc = "redial_r", !.redialing = TRUE, !.owed = FALSE]
             ELSE [sy EXCEPT !.owed = TRUE]
    /\ UNCHANGED <<get, attrs, fd, coreVars>>

\* case <-time.After(ival) of a syncer that forgets what it was waiting for
SyncerTimerIdle ==
    /\ sy.pc = "select"
    /\ sy' = [sy EXCEPT !.ival = "syncIval"]
    /\ UNCHANGED <<get, attrs, fd, coreVars>>

\* case <-time.After(ival)
SyncerTimer ==
    /\ sy.pc = "select"
    /\ sy' = SyncOrRedial(sy)
    /\ UNCHANGED <<get, attrs, fd, coreVars>>

\* case x := <-fs.syncc on the closed channel: if !x { break }
SyncerClosedSyncc ==
    /\ sy.pc = "select"
    /\ sy.sclosed
    /\ sy' = [sy EXCEPT !.pc = "done"]
    /\ UNCHANGED <<get, attrs, fd, coreVars>>

\* case <-fs.redialc on the closed channel: redialing = true; fs.redial() is called
SyncerClosedRedialc ==
    /\ sy.pc = "select"
    /\ sy.rclosed
    /\ sy' = [sy EXCEPT !.pc = "redial_r", !.redialing = TRUE]
    /\ UNCHANGED <<get, attrs, fd, coreVars>>

\* fs.redial() returns in case <-fs.redialc: if err == nil { redialing = false; continue };
\* ival = 5 * time.Second
RedialR ==
    /\ sy.pc = "redial_r"
    /\ \E ok \in BOOLEAN :
        /\ sy' = IF ok
                 THEN [sy EXCEPT !.pc = "select", !.redialing = FALSE, !.owed = FALSE,
                                 !.fresh = TRUE]
                 ELSE [sy EXCEPT !.pc = "select", !.ival = "5s", !.owed = FALSE,
                                 !.fresh = FALSE]
        /\ rup' = (rup \/ ok)
    /\ UNCHANGED <<get, attrs, fd, rfs, node, lock, cl, cfg, env, hist>>

\* if redialing { if err := fs.redial(); err != nil { ival = 5 * time.Second; continue };
\* redialing = false }
RedialS ==
    /\ sy.pc = "redial_s"
    /\ \E ok \in BOOLEAN :
        /\ sy' = IF ok
                 THEN [sy EXCEPT !.pc = "sync", !.redialing = FALSE, !.owed = FALSE,
                                 !.fresh = TRUE]
                 ELSE [sy EXCEPT !.pc = "select", !.ival = "5s", !.owed = FALSE,
                                 !.fresh = FALSE]
        /\ rup' = (rup \/ ok)
    /\ UNCHANGED <<get, attrs, fd, rfs, node, lock, cl, cfg, env, hist>>

\* if err := fs.Sync(); zx.IsIOError(err) && fs.redialok { redialing = true;
\* ival = 5 * time.Second; continue }; ival = syncIval; last = time.Now().
\* With the remote down the Sync fails when it has something to send to it.
SyncerSync ==
    /\ sy.pc = "sync"
    /\ \E io \in (IF rup THEN {FALSE} ELSE BOOLEAN) :
        /\ LET left == IF sy.pend = "late" THEN "yes" ELSE "no"
           IN  sy' = IF io /\ cfg.redialok
                     THEN [sy EXCEPT !.pc = "select", !.redialing = TRUE, !.ival = "5s",
                                     !.fresh = FALSE, !.pend = left]
                     ELSE [sy EXCEPT !.pc = "select", !.ival = "syncIval",
                                     !.pend = left]
        /\ node' = CacheSync(node).node
        /\ rfs' = CacheSync(node).rfs
    /\ UNCHANGED <<get, attrs, fd, rup, lock, cl, cfg, env, hist>>

\* close(fs.syncc)
CloseSyncc ==
    /\ ~sy.sclosed
    /\ sy' = [sy EXCEPT !.sclosed = TRUE]
    /\ UNCHANGED <<get, attrs, fd, coreVars>>

\* close(fs.redialc)
CloseRedialc ==
    /\ ~sy.rclosed
    /\ sy' = [sy EXCEPT !.rclosed = TRUE]
    /\ UNCHANGED <<get, attrs, fd, coreVars>>

(***************************************************************************)
(* The environment: the remote fails and recovers, and the Ctl request     *)
(* "inval" clears the cache (zxc.go 115-118)                               *)
(***************************************************************************)
RemoteFail ==
    /\ rup
    /\ env.fails < MaxFail
    /\ rup' = FALSE
    /\ env' = [env EXCEPT !.fails = @ + 1]
    /\ UNCHANGED <<get, attrs, sy, fd, rfs, node, lock, cl, cfg, hist>>

RemoteRecover ==
    /\ ~rup
    /\ rup' = TRUE
    /\ UNCHANGED <<get, attrs, sy, fd, rfs, node, lock, cl, cfg, env, hist>>

\* go fs.c.inval()
CtlInval ==
    /\ env.invals < MaxInval
    /\ \A q \in Paths : lock[q] = Free
    /\ node' = CacheInval(node)
    /\ env' = [env EXCEPT !.invals = @ + 1]
    /\ UNCHANGED <<get, attrs, sy, fd, rfs, rup, lock, cl, cfg, hist>>

(***************************************************************************)
(* Initial states and specifications                                       *)
(***************************************************************************)
\* c.setRoot(rd): the cache holds the root, with the metadata New got from the remote
NodeInit == [q \in Paths |-> IF q = Root THEN FreshNode("d") ELSE NoNode]

\* the remote tree: / and /d are directories, /d/f is a file
RemoteInit(e, g) ==
    [q \in Paths |-> IF q = Root \/ q = D THEN "d"
                     ELSE IF q = DF THEN "-"
                     ELSE IF q = E THEN e ELSE g]

HistInit == [bridged |-> FALSE, moved |-> FALSE, linked |-> FALSE]

EnvInit(maxops) == [fails |-> 0, invals |-> 0, maxops |-> maxops]

CfgOff == [writesync |-> FALSE, redialok |-> FALSE, perms |-> FALSE,
           mover |-> FALSE, linker |-> FALSE]

\* the cache and the clients while only Fs.get's listing loop is looked at
CoreIdle ==
    /\ rfs = RemoteInit("none", "none")
    /\ rup = TRUE
    /\ node = NodeInit
    /\ lock = [q \in Paths |-> Free]
    /\ cl = [c \in Clients |-> IdleClient]
    /\ cfg = CfgOff
    /\ env = EnvInit(0)
    /\ hist = HistInit

\* a new Fs over a remote tree, before any request
CoreInit ==
    /\ get = GetIdle
    /\ attrs = AttrsIdle
    /\ sy = SyIdle
    /\ fd = FdIdle
    /\ rup = TRUE
    /\ node = NodeInit
    /\ lock = [q \in Paths |-> Free]
    /\ cl = [c \in Clients |-> IdleClient]
    /\ hist = HistInit

\* Move and Stat over a remote that answers; the remote may lack Move
MoveMenu ==
    {<<DF, DG>>, <<DF, E>>, <<D, DF>>, <<Root, D>>, <<CtlPath, CtlSub>>, <<DF, DF>>}

MoveInit ==
    /\ CoreInit
    /\ env = EnvInit(MaxOps)
    /\ \E g \in {"none", "-"} : rfs = RemoteInit("none", g)
    /\ \E mv \in BOOLEAN :
        cfg = [writesync |-> TRUE, redialok |-> FALSE, perms |-> FALSE,
               mover |-> mv, linker |-> TRUE]

MoveNext ==
    \E c \in Clients :
        \/ StatCall(c, DF)
        \/ \E m \in MoveMenu : MoveCall(c, m[1], m[2])
        \/ WalkLock(c) \/ WalkMeta(c) \/ WalkData(c) \/ WalkFailed(c)
        \/ StatReturn(c)
        \/ MoveSync(c) \/ MoveFrom(c) \/ MoveTo(c) \/ MoveParent1(c) \/ MoveParent2(c)
        \/ MoveDo(c)

SpecMove == MoveInit /\ [][MoveNext]_vars

\* moves between directories of which one holds the other, /e being a file
OrderMenu == {<<DF, E>>, <<E, DG>>, <<DF, DG>>}

OrderInit ==
    /\ CoreInit
    /\ env = EnvInit(FsMaxOps)
    /\ \E g \in {"none", "-"} : rfs = RemoteInit("-", g)
    /\ cfg = [writesync |-> TRUE, redialok |-> FALSE, perms |-> FALSE,
              mover |-> TRUE, linker |-> TRUE]

OrderNext ==
    \E c \in Clients :
        \/ \E m \in OrderMenu : MoveCall(c, m[1], m[2])
        \/ WalkLock(c) \/ WalkMeta(c) \/ WalkData(c) \/ WalkFailed(c)
        \/ MoveSync(c) \/ MoveFrom(c) \/ MoveTo(c) \/ MoveParent1(c) \/ MoveParent2(c)
        \/ MoveDo(c)

SpecOrder == OrderInit /\ [][OrderNext]_vars

\* the single-path operations, over a remote that may fail and recover, with
\* write-through and redial on
StatMenu == {DF}
GetMenu == {D}
WstatMenu == {<<DF, FALSE>>, <<D, TRUE>>}
RemoveMenu == {<<DF, FALSE>>, <<Root, FALSE>>}
PutMenu == {<<DF, "">>, <<DG, "-">>, <<E, "d">>, <<Root, "d">>}

WriteInit ==
    /\ CoreInit
    /\ env = EnvInit(FsMaxOps)
    /\ rfs = RemoteInit("none", "none")
    /\ cfg = [writesync |-> TRUE, redialok |-> TRUE, perms |-> FALSE,
              mover |-> TRUE, linker |-> TRUE]

WriteNext ==
    \/ RemoteFail
    \/ RemoteRecover
    \/ CtlInval
    \/ \E c \in Clients :
        \/ \E p \in StatMenu : StatCall(c, p)
        \/ \E p \in GetMenu : GetCall(c, p)
        \/ \E a \in WstatMenu : WstatCall(c, a[1], a[2])
        \/ \E a \in RemoveMenu : RemoveCall(c, a[1], a[2])
        \/ \E a \in PutMenu : PutCall(c, a[1], a[2])
        \/ WalkLock(c) \/ WalkMeta(c) \/ WalkData(c) \/ WalkFailed(c)
        \/ StatReturn(c) \/ GetReturn(c) \/ WstatApply(c) \/ RemoveApply(c)
        \/ PutApply(c) \/ PutLock(c) \/ SyncReturn(c)

SpecWrite == WriteInit /\ [][WriteNext]_vars

\* Remove and Stat of the same file, next to the Ctl request "inval", over a remote
\* that may fail, without redial
GoneInit ==
    /\ CoreInit
    /\ env = EnvInit(FsMaxOps)
    /\ rfs = RemoteInit("none", "none")
    /\ cfg = [writesync |-> TRUE, redialok |-> FALSE, perms |-> FALSE,
              mover |-> TRUE, linker |-> TRUE]

GoneNext ==
    \/ RemoteFail
    \/ RemoteRecover
    \/ CtlInval
    \/ \E c \in Clients :
        \/ StatCall(c, DF)
        \/ RemoveCall(c, DF, FALSE)
        \/ WalkLock(c) \/ WalkMeta(c) \/ WalkData(c) \/ WalkFailed(c)
        \/ StatReturn(c) \/ RemoveApply(c) \/ SyncReturn(c)

SpecGone == GoneInit /\ [][GoneNext]_vars

\* Find with its consumer, next to Stat, /e being a file
FindMenu == {<<Root, "all">>, <<Root, "prune">>, <<D, "bad">>, <<DG, "all">>}

FindInit ==
    /\ CoreInit
    /\ env = EnvInit(FsMaxOps)
    /\ rfs = RemoteInit("-", "none")
    /\ cfg = [writesync |-> TRUE, redialok |-> FALSE, perms |-> FALSE,
              mover |-> TRUE, linker |-> TRUE]

FindNext ==
    \/ ConsumerClose
    \/ \E c \in Clients :
        \/ \E a \in FindMenu : FindCall(c, a[1], a[2])
        \/ StatCall(c, DF)
        \/ WalkLock(c) \/ WalkMeta(c) \/ WalkData(c) \/ WalkFailed(c)
        \/ StatReturn(c)
        \/ FindStart(c) \/ FindrEval(c) \/ FindrSend(c) \/ FindrLoop(c)
        \/ FindrWalk1(c) \/ FindrChild(c)

SpecFind == FindInit /\ [][FindNext]_vars

\* Link, next to Remove and the Ctl request "inval", over a remote that answers
LinkMenu == {<<DF, DG>>, <<DF, E>>, <<DF, D>>, <<DF, Root>>, <<DF, DF>>}
LinkRemoveMenu == {<<DG, FALSE>>}

LinkInit ==
    /\ CoreInit
    /\ env = EnvInit(FsMaxOps)
    /\ \E g \in {"none", "-"} : rfs = RemoteInit("none", g)
    /\ \E ln \in BOOLEAN :
        cfg = [writesync |-> TRUE, redialok |-> FALSE, perms |-> FALSE,
               mover |-> TRUE, linker |-> ln]

LinkNext ==
    \/ CtlInval
    \/ \E c \in Clients :
        \/ \E a \in LinkMenu : LinkCall(c, a[1], a[2])
        \/ \E a \in LinkRemoveMenu : RemoveCall(c, a[1], a[2])
        \/ WalkLock(c) \/ WalkMeta(c) \/ WalkData(c) \/ WalkFailed(c)
        \/ RemoveApply(c) \/ SyncReturn(c)
        \/ LinkSync(c) \/ LinkStat(c) \/ LinkDo(c)

SpecLink == LinkInit /\ [][LinkNext]_vars

\* the state at the Dloop label: ds, err := f.getDir(); ctlsent := false; i := 0
GetInit ==
    /\ \E root \in BOOLEAN, ds \in SeqsUpTo(DirNames, MaxLen),
       off \in 0..MaxOff, count \in {All} \cup (0..MaxCount) :
        get = [pc |-> "loop", root |-> root, ds0 |-> ds, off0 |-> off,
               count0 |-> count, ds |-> ds, i |-> 0, off |-> off, count |-> count,
               ctlsent |-> FALSE, out |-> <<>>]
    /\ attrs = AttrsIdle
    /\ sy = SyIdle
    /\ fd = FdIdle
    /\ CoreIdle

\* Puts on two cached files, by views authenticated as different users and by the
\* view that was not authenticated
WuidInit ==
    /\ get = GetIdle
    /\ sy = SyIdle
    /\ fd = FdIdle
    /\ \E o \in [Files -> Users \cup {""}] :
        attrs = [uid |-> o, wuid |-> o, last |-> [p \in Files |-> NoAi]]
    /\ rfs = RemoteInit("none", "-")
    /\ rup = TRUE
    /\ node = NodeInit
    /\ lock = [q \in Paths |-> Free]
    /\ cl = [c \in Clients |-> IdleClient]
    /\ \E perms \in BOOLEAN : cfg = [CfgOff EXCEPT !.perms = perms]
    /\ env = EnvInit(0)
    /\ hist = HistInit

WuidNext ==
    \E ai \in Users \cup {NoAi}, p \in Files, typ \in {"", "-", "d"},
       duid \in Users \cup {""} : PutAttrs(ai, p, typ, duid)

SpecWuid == WuidInit /\ [][WuidNext]_vars

\* the syncer next to operations that signal it, a remote that fails, and the
\* closing of its channels.  The syncer's own steps are taken when they can be; a
\* select over ready cases picks each of them sooner or later.
SyncerInit ==
    /\ get = GetIdle
    /\ attrs = AttrsIdle
    /\ sy = SyIdle
    /\ fd = FdIdle
    /\ rfs = RemoteInit("none", "none")
    /\ rup = TRUE
    /\ node = NodeInit
    /\ lock = [q \in Paths |-> Free]
    /\ cl = [c \in Clients |-> IdleClient]
    /\ \E r \in BOOLEAN : cfg = [CfgOff EXCEPT !.redialok = r]
    /\ env = EnvInit(0)
    /\ hist = HistInit

SyncerNext ==
    \/ NeedSync \/ NeedRedial
    \/ SyncerTimer \/ SyncerClosedSyncc \/ SyncerClosedRedialc
    \/ RedialR \/ RedialS \/ SyncerSync
    \/ CloseSyncc \/ CloseRedialc
    \/ RemoteFail

SyncerFair ==
    /\ WF_vars(SyncerTimer) /\ WF_vars(SyncerClosedRedialc)
    /\ SF_vars(SyncerClosedSyncc)
    /\ WF_vars(RedialR) /\ WF_vars(RedialS) /\ WF_vars(SyncerSync)

SpecSyncer == SyncerInit /\ [][SyncerNext]_vars /\ SyncerFair

GetNext == GetOff \/ GetCountZero \/ GetCtl \/ GetHidden \/ GetEmit \/ GetEnd

SpecGet == GetInit /\ [][GetNext]_vars


(***************************************************************************)
(* Claims about the directory listing of Get                               *)
(***************************************************************************)
HiddenNames == {".zx", ".#zx"}

\* the listing entries a client may see, in listing order
Shown(ds) == SelectSeq(ds, LAMBDA n : n \notin HiddenNames)

\* the visible listing V: /Ctl first at the root, then the shown entries
Visible == IF get.root THEN <<Ctl>> \o Shown(get.ds0) ELSE Shown(get.ds0)

NumCtl(s) == Cardinality({k \in 1..Len(s) : s[k] = Ctl})

Min(a, b) == IF a < b THEN a ELSE b

GetWhole == get.pc = "done" /\ get.off0 = 0 /\ get.count0 = All

\* C1: Get("/", 0, All) emits /Ctl exactly once whatever the root listing holds
\* (the empty listing included), and Get on any other directory never emits it.
C1_CtlExactlyOnce ==
    GetWhole => NumCtl(get.out) = (IF get.root THEN 1 ELSE 0)

\* C2: Get(dir, 0, All) emits every listing entry not named .zx or .#zx exactly
\* once and in listing order, emits no hidden entry wherever it sits, and at the
\* root every emitted listing entry comes after /Ctl.
C2_ListingInOrder ==
    GetWhole =>
        /\ SelectSeq(get.out, LAMBDA n : n # Ctl) = Shown(get.ds0)
        /\ \A k \in 1..Len(get.out) : get.out[k] \notin HiddenNames
        /\ get.root => \A k \in 1..Len(get.out) :
                          get.out[k] # Ctl => (k > 1 /\ get.out[1] = Ctl)
        /\ ~get.root => NumCtl(get.out) = 0

\* the root listing .zx, a, .#zx read whole: /Ctl then a
C2_Witness ==
    /\ GetWhole
    /\ get.root
    /\ get.ds0 = <<".zx", "a", ".#zx">>
    /\ get.out = <<Ctl, "a">>

\* C3: Get(dir, off, count) with a finite count emits exactly V[off .. off+count-1],
\* so hidden entries consume neither off nor count.  (Stated for the listings that
\* hold an entry; the empty root listing is the case of C1.)
C3_OffCountWindow ==
    (get.pc = "done" /\ get.count0 # All /\ get.ds0 # <<>>) =>
        get.out = SubSeq(Visible, get.off0 + 1,
                         Min(get.off0 + get.count0, Len(Visible)))

\* C4: after successful Puts on a file by views authenticated as different users,
\* the wuid kept for the file is the uid of the user that issued the last Put.
C4_WuidIsLastWriter ==
    \A p \in Files : attrs.last[p] \in Users => attrs.wuid[p] = attrs.last[p]

(***************************************************************************)
(* Claims about Move                                                       *)
(***************************************************************************)
StrictPrefix(from, to) == from # to /\ HasPrefix(to, from)

\* client c calls Move(from, to) in this step, from a strict prefix of to
CallsPrefixMove(c) ==
    /\ cl[c].pc = "idle"
    /\ cl'[c] # cl[c]
    /\ cl'[c].op = "move"
    /\ StrictPrefix(cl'[c].p, cl'[c].q)

\* the call has returned kind within the step and has left the cache, the locks and
\* the remote as they were
Rejected(c, kind) ==
    /\ cl'[c].pc = "idle"
    /\ cl'[c].res.kind = kind
    /\ cl'[c].res.push = "none"
    /\ UNCHANGED <<rfs, node, lock>>

\* C5 as claimed: Move(from, to) with from a strict prefix of to returns BadPath
\* and changes nothing.
C5_PrefixMoveBadPath ==
    [][\A c \in Clients : CallsPrefixMove(c) => Rejected(c, "badpath")]_vars

\* C5 as amended: Move(from, to) with from a strict prefix of to returns an error
\* and changes nothing (no sync, no lock, no invalidation, no request to the
\* remote); the error is Unsupported when the remote has no Move, Perm when from
\* is / or /Ctl, and BadPath otherwise.
C5_PrefixMoveRejected ==
    [][\A c \in Clients :
        CallsPrefixMove(c) =>
            Rejected(c, IF ~cfg.mover THEN "unsupported"
                        ELSE IF cl'[c].p \in {Root, CtlPath} THEN "perm"
                        ELSE "badpath")]_vars

\* Move("/d", "/d/f") was rejected as inconsistent, and Move("/", "/d") for its source
C5_Witness ==
    /\ cl["c1"].pc = "idle" /\ cl["c1"].op = "move"
    /\ cl["c1"].p = D /\ cl["c1"].q = DF /\ cl["c1"].res.kind = "badpath"
    /\ cl["c2"].pc = "idle" /\ cl["c2"].op = "move"
    /\ cl["c2"].p = Root /\ cl["c2"].q = D /\ cl["c2"].res.kind = "perm"

\* client c has a result of Stat("/d/f")
StatDone(c) ==
    cl[c].pc = "idle" /\ cl[c].op = "stat" /\ cl[c].p = DF /\ cl[c].res.kind # "none"

\* C6: while /d/f is moved away, every Stat("/d/f") returns the entry the file had
\* before the move or NotExist, and a Stat called after a Move has returned with
\* success does not return the entry.
C6_StatSeesMove ==
    \A c \in Clients :
        StatDone(c) =>
            /\ \/ cl[c].res.kind = "ok" /\ cl[c].res.typ = "-"
               \/ cl[c].res.kind = "notexist"
            /\ cl[c].after => cl[c].res.kind = "notexist"

\* a Stat("/d/f") called after the Move returned has answered NotExist, and one
\* called before it has answered with the entry
C6_Witness ==
    /\ hist.moved
    /\ StatDone("c1") /\ cl["c1"].after /\ cl["c1"].res.kind = "notexist"
    /\ StatDone("c2") /\ ~cl["c2"].after /\ cl["c2"].res.kind = "ok"

(***************************************************************************)
(* Claims about locks, validity flags, write-through and Link              *)
(***************************************************************************)
\* the node whose lock client c is about to take
WaitsFor(c) ==
    IF cl[c].w.st = "lock" THEN {cl[c].w.f}
    ELSE IF cl[c].pc \in {"put_lock", "put_relock"} THEN {cl[c].p}
    ELSE {}

\* C7: no state is reached in which operations wait for each other's node locks
\* for ever, or in which an operation waits for a lock it holds itself.
C7_NoLockCycle ==
    \A S \in (SUBSET Clients) \ {{}} :
        ~ \A c \in S : \E q \in WaitsFor(c) : lock[q] \in S

\* C8: every node with dataOk set has metaOk set.
C8_DataOkImpliesMetaOk ==
    \A q \in Paths : node[q].dataOk => node[q].metaOk

\* C9: in write-through mode no Put, Wstat or Remove returns success when the push
\* of its mutation to the remote failed.
C9_NoSuccessOnFailedPush ==
    \A c \in Clients :
        (/\ cfg.writesync
         /\ cl[c].pc = "idle"
         /\ cl[c].op \in {"put", "wstat", "remove"}
         /\ cl[c].res.kind = "ok") => cl[c].res.push # "failed"

\* C10: a Link(to, from) called when the remote supports link, has to, has no from
\* and has from's directory forwards the request to the remote and returns the
\* remote's result, which is success then.
C10_LinkForwarded ==
    \A c \in Clients :
        (/\ cfg.linker
         /\ cl[c].pc = "idle"
         /\ cl[c].op = "link"
         /\ cl[c].pre
         /\ cl[c].res.kind # "none") =>
            (cl[c].res.push = "ok" /\ cl[c].res.kind = "ok")

SyOpen == ~sy.sclosed /\ ~sy.rclosed

\* C12: with redialok set, once an operation has bridged an I/O error and sent the
\* redial signal, the syncer comes to its redialing state and attempts a Redial,
\* whatever it was doing when the signal was sent; and a Redial that succeeds
\* clears redialing, the Sync of that turn being attempted next.
C12_RedialAfterBridge ==
    /\ (sy.owed /\ SyOpen) ~> (sy.redialing \/ ~sy.owed \/ ~SyOpen)
    /\ [][(sy.pc \in {"redial_r", "redial_s"} /\ sy'.pc # sy.pc /\ sy'.fresh)
            => (~sy'.redialing /\ (sy.pc = "redial_s" => sy'.pc = "sync"))]_vars

\* C19: the syncer stops after either channel is closed.
C19_CloseStopsSyncer ==
    (sy.sclosed \/ sy.rclosed) ~> (sy.pc = "done")

\* C20: the syncer never calls Sync while redialing is set, nor after a Redial
\* that failed or a Sync that ended in an I/O error (with redialok) unless a Redial
\* has succeeded since.
C20_NoSyncWhileRedialing ==
    sy.pc = "sync" => (~sy.redialing /\ sy.fresh)

\* a Redial failed, a later one succeeded, and the Sync of that turn is being made
C20_Witness ==
    sy.pc = "sync" /\ sy.ival = "5s" /\ sy.fresh /\ rup /\ env.fails = 1

\* the locks client c took in the walk it is in: those it holds on the nodes from the
\* root down to the node the walk is at, less the ones its operation held before
LocksOf(c) ==
    {f \in Paths : HasPrefix(cl[c].w.f, f) /\ lock[f] = c} \ cl[c].held

FirstLocked(c) ==
    /\ cl[c].op = "move"
    /\ Parent(cl[c].p) # Parent(cl[c].q)
    /\ \/ cl[c].pc = "mv_p1" /\ cl[c].w.st = "ok"
       \/ cl[c].pc = "mv_p2" /\ cl[c].w.st \in {"lock", "meta", "data"}

\* C14 as stated: in Move(from, to) with A = dirname(from) and B = dirname(to), A is
\* locked before B when A is a strict prefix of B, and B before A in every other case
\* with A # B.
C14_PrefixParentFirst ==
    \A c \in Clients :
        FirstLocked(c) =>
            LET A == Parent(cl[c].p)
                B == Parent(cl[c].q)
            IN  IF StrictPrefix(A, B)
                THEN lock[A] = c /\ (cl[c].pc = "mv_p1" => lock[B] # c)
                ELSE lock[B] = c /\ (cl[c].pc = "mv_p1" => lock[A] # c)

\* C14 amended: the parent whose path is the greater string is locked first, so A
\* before B when A > B and B before A when A < B; when one parent is a strict prefix
\* of the other the longer, inner one is locked first, and it is still held while the
\* outer one is walked to.
C14_InnerParentFirst ==
    \A c \in Clients :
        FirstLocked(c) =>
            LET A == Parent(cl[c].p)
                B == Parent(cl[c].q)
                first == IF StrLess(A, B) THEN B ELSE A
                second == IF StrLess(A, B) THEN A ELSE B
            IN  /\ lock[first] = c
                /\ cl[c].pc = "mv_p1" => lock[second] # c
                /\ (StrictPrefix(A, B) \/ StrictPrefix(B, A)) => Len(first) > Len(second)

C14_Witness ==
    \E c \in Clients :
        /\ FirstLocked(c)
        /\ StrictPrefix(Parent(cl[c].p), Parent(cl[c].q))
        /\ cl[c].pc = "mv_p2" /\ cl[c].w.st = "meta"
        /\ lock[Parent(cl[c].q)] = c /\ lock[Parent(cl[c].p)] = c

\* C15: walk goes down a path hand over hand: from its first lock to its return the
\* walker always holds a node lock, so a walker about to lock a child still holds the
\* lock of the parent in which it looked the child up.
C15_HandOverHand ==
    \A c \in Clients :
        (cl[c].w.st = "lock" /\ cl[c].w.f # Root) => lock[Parent(cl[c].w.f)] = c

\* C16: an operation changes the flags, metadata or data of a node only while it holds
\* the lock of that node; in particular a Move that is about to run ffrom.inval() and
\* fto.inval() holds the locks of both nodes, also when from and to have the same
\* parent and to exists.
C16_MoveInvalUnderLock ==
    \A c \in Clients :
        cl[c].pc = "mv_do" => (lock[cl[c].ffrom] = c /\ lock[cl[c].fto] = c)

\* C17: a Wstat of a directory whose delta sets size does not fail because its target
\* is a directory: size is dropped and the rest of the delta is applied.
C17_DirWstatDropsSize ==
    \A c \in Clients :
        (cl[c].pc = "idle" /\ cl[c].op = "wstat" /\ cl[c].opt) => cl[c].res.kind # "isdir"

\* C18: a walk that has locked a node that is gone fails there with not-exist, whatever
\* it walks for and whether the node is its last element or not, and holds no lock of
\* its own afterwards.
C18_GoneIsNotExist ==
    [][\A c \in Clients :
          (cl[c].w.st = "meta" /\ node[cl[c].w.f].gone /\ cl'[c].w # cl[c].w)
              => /\ cl'[c].w.st = "err"
                 /\ cl'[c].w.err = "notexist"
                 /\ lock'[cl[c].w.f] # c]_vars

\* C21: in write-back mode an operation that has changed the cache is not held up by
\* the syncer (needSync can always be taken while syncc is open), and unless Redial
\* fails for ever its change is followed by a call of fs.Sync() made after it, while
\* the syncer runs: also when the signal was dropped because the syncer was busy, and
\* when it was put off because the last Sync was recent.
C21_MutationGetsSync ==
    /\ [](~sy.sclosed => ENABLED NeedSync)
    /\ \/ <>[]sy.redialing
       \/ (sy.pend # "no" /\ SyOpen) ~> (sy.pend = "no" \/ ~SyOpen)

\* the signal of the change that is followed was dropped, the syncer being busy, and
\* the syncer is back at its doselect with nothing but its timer to wake it
C21_Witness ==
    /\ sy.pc = "select" /\ sy.pend = "yes" /\ sy.ival = "syncIval"
    /\ SyOpen /\ ~sy.redialing

\* C22: once a send of findr has failed, the consumer having closed the stream, the
\* Find sends no further entry and locks no further node: neither a node of the cache
\* nor ctlfile; this whether the entry of the failed send matched or was pruned.
C22_FindStopsOnClose ==
    [][fd.failed =>
          /\ Len(fd'.out) <= Len(fd.out)
          /\ \A q \in Paths : lock'[q] = fd.who => lock[q] = fd.who
          /\ fd'.ctl = fd.who => fd.ctl = fd.who]_vars

\* C23: an operation that has delivered its result or its error holds no lock: every
\* lock it took, of a node of the cache or of ctlfile, was released before.
C23_NoLockAfterReturn ==
    \A c \in Clients :
        cl[c].pc = "idle" => (fd.ctl # c /\ \A f \in Paths : lock[f] # c)

====
